---- MODULE Spec2Model ----
(***************************************************************************)
(* The dispatch core of mediatr (src/mediatr/mediator.py): the three       *)
(* module-level registries, the registration calls, clear(), and the two   *)
(* entry points send and send_async, executed one call at a time.          *)
(*                                                                         *)
(* Objects are named by strings.  A request object is named by its class   *)
(* ("Base", "Sub"), the mediator instance by "Mediator", and the absent    *)
(* request by None.  A value returned by a callable is a sequence of       *)
(* strings: <<"hA">> is the value the handler hA computes, <<"bW","hA">>   *)
(* is that value wrapped by behavior bW, <<None>> is Python's None and     *)
(* <<Coro>> is a coroutine object that nobody has awaited.                 *)
(*                                                                         *)
(* issubclass(r_class, typing.Any) is modelled as Python >= 3.11 evaluates *)
(* it (False, so that the third disjunct key == Any decides); registry     *)
(* keys of behaviors and notifications are classes or typing.Any.          *)
(***************************************************************************)
EXTENDS Naturals, Sequences, FiniteSets

\* Bound of the model: how many entries the three registries hold together.
MaxRegistered == 4

None == "None"
Any == "Any"
Coro == "coroutine"

\* The classes of the requests, Sub a subclass of Base; the mediator's own class.
RequestClasses == {"Base", "Sub"}
MediatorClass == "Mediator"

\* cls.__name__, as a registry key distinct from the class itself.
ClassName(cls) == "n:" \o cls

\* issubclass(cls, key) for a key that is a class or typing.Any.
issubclass(cls, key) ==
    \/ cls = key
    \/ cls = "Sub" /\ key = "Base"

(***************************************************************************)
(* The callables a program registers.  Each has the annotation of its      *)
(* request parameter, is a plain function or a coroutine function          *)
(* (async def), and has a body of one of these shapes:                     *)
(*   handlers, notifications: "ok" (returns) or "raise";                   *)
(*   behaviors: "return_next"  return next()                               *)
(*              "await_next"   return await next()                         *)
(*              "wrap"         return (me, next())  / (me, await next())   *)
(*              "short"        return me, next never called                *)
(*              "drop"         next(); return me                           *)
(*              "raise"        raise, next never called                    *)
(***************************************************************************)
Handlers == {"hA", "hA2", "hS", "hN"}
Behaviors == {"bP", "bW", "bS", "bA", "bU", "bD", "bR", "bV"}
Notifications == {"nA", "nB", "nR", "nC"}

\* A function that a program may hand to register_* and that is no valid
\* handler, behavior or notification: def bad(request): ..., whose request
\* parameter has no annotation (inspect.Parameter.empty).
Rejected == {"bad"}
Empty == "inspect._empty"

\* The annotation extract_request_type reads off the callable: the registry key.
Annotation(e) ==
    CASE e = "hA" -> "Base"
      [] e = "hA2" -> "Base"
      [] e = "hS" -> "Sub"
      [] e = "hN" -> ClassName("Sub")
      [] e = "bP" -> "Base"
      [] e = "bW" -> "Base"
      [] e = "bS" -> "Sub"
      [] e = "bA" -> Any
      [] e = "bU" -> Any
      [] e = "bD" -> "Sub"
      [] e = "bR" -> "Base"
      [] e = "bV" -> "Base"
      [] e = "nA" -> Any
      [] e = "nB" -> "Base"
      [] e = "nR" -> "Sub"
      [] e = "nC" -> Any
      [] e = "bad" -> Empty

\* Whether the callable is a coroutine function (async def).
iscoroutinefunction(e) == e \in {"hA2", "bA", "bU", "bV", "nB"}

\* The shape of the callable's body.
Body(e) ==
    CASE e \in {"hA", "hA2", "hN", "nA", "nB", "nC"} -> "ok"
      [] e \in {"hS", "bR", "nR"} -> "raise"
      [] e \in {"bP", "bU"} -> "return_next"
      [] e = "bA" -> "await_next"
      [] e \in {"bW", "bV"} -> "wrap"
      [] e = "bS" -> "short"
      [] e = "bD" -> "drop"

VARIABLES
    handlers,       \* __handlers__: key -> handler
    behaviors,      \* __behaviors__: items in insertion order, [key, val]
    notifications,  \* __notifications__: items in insertion order, [key, val]
    pc,             \* "idle", or where the running send/send_async call is
    mode,           \* "send" or "send_async"
    self_arg,       \* the call's self
    request_arg,    \* the call's request argument
    chain,          \* the local list behaviors of the running call
    notifs,         \* the local list notifications of the running call
    idx,            \* i of the start_func(i) that is executing (from 1)
    val,            \* the value start_func(idx) returns
    beh_result,     \* the local beh_result
    nidx,           \* position of the fan-out loop (from 1)
    outcome,        \* how the call ended: "returned" or the error raised
    result,         \* the value the call returned
    raised_by,      \* the callable whose error ended the call
    trace,          \* the callables invoked by the running call, in order
    first_handler,  \* history: per key, the first handler registered since clear()
    last_handler,   \* history: per key, the handler of the latest register_handler call
    reg_order,      \* history: the behaviors in the order of their registration
    was_cleared,    \* history: clear() emptied the registries and nothing was registered since
    reg_order_n,    \* history: the notifications in the order of their registration
    last_registration,  \* history: how the latest call ended, a registration that stored nothing
    prev            \* history: the call before, as call_over_recorded kept it

registry == <<handlers, behaviors, notifications>>
history == <<first_handler, last_handler, reg_order, was_cleared, reg_order_n,
             last_registration, prev>>
locals == <<mode, self_arg, request_arg, chain, notifs, idx, val, beh_result,
            nidx, outcome, result, raised_by, trace>>
vars == <<registry, history, pc, locals>>

\* dict.get(key): the value, or None when the key is absent.
DictGet(d, key) == IF key \in DOMAIN d THEN d[key] ELSE None

\* d[key] = value
DictSet(d, key, value) ==
    [k \in (DOMAIN d) \cup {key} |-> IF k = key THEN value ELSE d[k]]

EmptyDict == [k \in {} |-> None]

\* Position of key among the items of an insertion-ordered dict, 0 when absent.
ItemIndex(items, key) ==
    IF \E i \in 1..Len(items) : items[i].key = key
    THEN CHOOSE i \in 1..Len(items) : items[i].key = key
    ELSE 0

\* The registration with the bug of appending without the test for presence.
AppendUnique_always(items, key, entry) ==
    IF ItemIndex(items, key) = 0
    THEN Append(items, [key |-> key, val |-> <<entry>>])
    ELSE [items EXCEPT ![ItemIndex(items, key)].val = Append(@, entry)]

\* The registration with the bug of keeping one list in the order of the
\* registrations instead of one list per key.
AppendUnique_flat(items, key, entry) ==
    IF \E i \in 1..Len(items) : items[i].val = <<entry>>
    THEN items
    ELSE Append(items, [key |-> key, val |-> <<entry>>])

\* The items of an insertion-ordered dict after
\*     if not d.get(key): d[key] = []
\*     if not any(x == entry for x in d[key]): d[key].append(entry)
\* (a key that is present always holds a non-empty list: the append follows
\* the creation in the same call).
AppendUnique(items, key, entry) ==
    LET created == IF ItemIndex(items, key) = 0 \/ items[ItemIndex(items, key)].val = <<>>
                   THEN IF ItemIndex(items, key) = 0
                        THEN Append(items, [key |-> key, val |-> <<>>])
                        ELSE [items EXCEPT ![ItemIndex(items, key)].val = <<>>]
                   ELSE items
        j == ItemIndex(created, key)
    IN  IF \E x \in 1..Len(created[j].val) : created[j].val[x] = entry
        THEN created
        ELSE [created EXCEPT ![j].val = Append(@, entry)]

\* How many entries the three registries hold.
RECURSIVE CountItems(_)
CountItems(items) ==
    IF items = <<>> THEN 0
    ELSE Len(Head(items).val) + CountItems(Tail(items))

Registered ==
    Cardinality(DOMAIN handlers) + CountItems(behaviors) + CountItems(notifications)

\* raise_if_handler_is_invalid(handler) raises
HandlerIsInvalid(h) == h \in Rejected

\* raise_if_notifiacation_is_invalid(handler) raises
NotificationIsInvalid(n) == n \in Rejected

\* raise_if_behavior_is_invalid(behavior) raises
BehaviorIsInvalid(b) == b \in Rejected

\* No call was kept.
NoPrev ==
    [request |-> None, mode |-> None, outcome |-> None, result |-> <<>>,
     raised_by |-> None, trace |-> <<>>, chain |-> <<>>, notifs |-> <<>>]

Idle ==
    /\ pc = "idle"

Init ==
    /\ handlers = EmptyDict
    /\ behaviors = <<>>
    /\ notifications = <<>>
    /\ pc = "idle"
    /\ mode = None
    /\ self_arg = None
    /\ request_arg = None
    /\ chain = <<>>
    /\ notifs = <<>>
    /\ idx = 0
    /\ val = <<>>
    /\ beh_result = <<>>
    /\ nidx = 0
    /\ outcome = None
    /\ result = <<>>
    /\ raised_by = None
    /\ trace = <<>>
    /\ first_handler = EmptyDict
    /\ last_handler = EmptyDict
    /\ reg_order = <<>>
    /\ was_cleared = FALSE
    /\ reg_order_n = <<>>
    /\ last_registration = None
    /\ prev = NoPrev

\* register_handler with the bug of storing the handler whatever the key holds.
register_handler_overwrite(h) ==
    /\ pc = "idle"
    /\ Registered < MaxRegistered
    /\ IF HandlerIsInvalid(h)
       THEN /\ last_registration' = "rejected"
            /\ UNCHANGED <<handlers, first_handler, last_handler, was_cleared>>
       ELSE /\ handlers' = DictSet(handlers, Annotation(h), h)
            /\ first_handler' = IF Annotation(h) \in DOMAIN first_handler
                                THEN first_handler
                                ELSE DictSet(first_handler, Annotation(h), h)
            /\ last_handler' = DictSet(last_handler, Annotation(h), h)
            /\ was_cleared' = FALSE
            /\ last_registration' = None
    /\ UNCHANGED <<behaviors, notifications, reg_order, reg_order_n, prev, pc, locals>>

\* Mediator.register_handler(handler)
register_handler(h) ==
    /\ Idle
    /\ Registered < MaxRegistered
    /\ IF HandlerIsInvalid(h)
       THEN /\ last_registration' = "rejected"
            /\ UNCHANGED <<handlers, first_handler, last_handler, was_cleared>>
       ELSE LET request_type == Annotation(h)
            IN  /\ handlers' = IF DictGet(handlers, request_type) = None
                               THEN DictSet(handlers, request_type, h)
                               ELSE handlers
                /\ first_handler' = IF request_type \in DOMAIN first_handler
                                    THEN first_handler
                                    ELSE DictSet(first_handler, request_type, h)
                /\ last_handler' = DictSet(last_handler, request_type, h)
                /\ was_cleared' = FALSE
                /\ last_registration' = IF DictGet(handlers, request_type) = None
                                         THEN None ELSE "handler:ignored"
    /\ UNCHANGED <<behaviors, notifications, reg_order, reg_order_n, prev, pc, locals>>

\* s with x appended when it is not in it.
Remember(s, x) ==
    IF \E i \in 1..Len(s) : s[i] = x THEN s ELSE Append(s, x)

\* Whether entry is in the list the registry holds under key.
Present(items, key, entry) ==
    /\ ItemIndex(items, key) # 0
    /\ \E x \in 1..Len(items[ItemIndex(items, key)].val) :
          items[ItemIndex(items, key)].val[x] = entry

\* register_notification with the bug of validating after the append.
register_notification_late_check(n) ==
    /\ pc = "idle"
    /\ Registered < MaxRegistered
    /\ notifications' = AppendUnique(notifications, Annotation(n), n)
    /\ IF NotificationIsInvalid(n)
       THEN /\ last_registration' = "rejected"
            /\ UNCHANGED <<reg_order_n, was_cleared>>
       ELSE /\ reg_order_n' = Remember(reg_order_n, n)
            /\ was_cleared' = FALSE
            /\ last_registration' = IF Present(notifications, Annotation(n), n)
                                     THEN "notification:present" ELSE None
    /\ UNCHANGED <<handlers, behaviors, first_handler, last_handler, reg_order, prev,
                   pc, locals>>

\* Mediator.register_notification(handler)
register_notification(n) ==
    /\ Idle
    /\ Registered < MaxRegistered
    /\ IF NotificationIsInvalid(n)
       THEN /\ last_registration' = "rejected"
            /\ UNCHANGED <<notifications, reg_order_n, was_cleared>>
       ELSE /\ notifications' = AppendUnique(notifications, Annotation(n), n)
            /\ reg_order_n' = Remember(reg_order_n, n)
            /\ was_cleared' = FALSE
            /\ last_registration' = IF Present(notifications, Annotation(n), n)
                                     THEN "notification:present" ELSE None
    /\ UNCHANGED <<handlers, behaviors, first_handler, last_handler, reg_order, prev,
                   pc, locals>>

\* Mediator.register_behavior(behavior)
register_behavior(b) ==
    /\ Idle
    /\ Registered < MaxRegistered
    /\ IF BehaviorIsInvalid(b)
       THEN /\ last_registration' = "rejected"
            /\ UNCHANGED <<behaviors, reg_order, was_cleared>>
       ELSE /\ behaviors' = AppendUnique(behaviors, Annotation(b), b)
            /\ reg_order' = Remember(reg_order, b)
            /\ was_cleared' = FALSE
            /\ last_registration' = IF Present(behaviors, Annotation(b), b)
                                     THEN "behavior:present" ELSE None
    /\ UNCHANGED <<handlers, notifications, first_handler, last_handler, reg_order_n,
                   prev, pc, locals>>

\* clear() with the bug of emptying the handlers alone.
clear_handlers_only ==
    /\ pc = "idle"
    /\ handlers' = EmptyDict
    /\ first_handler' = EmptyDict
    /\ last_handler' = EmptyDict
    /\ reg_order' = <<>>
    /\ was_cleared' = (Registered > 0)
    /\ last_registration' = None
    /\ UNCHANGED <<notifications, behaviors, reg_order_n, prev, pc, locals>>

\* Mediator.clear()
clear ==
    /\ Idle
    /\ handlers' = EmptyDict
    /\ notifications' = <<>>
    /\ behaviors' = <<>>
    /\ first_handler' = EmptyDict
    /\ last_handler' = EmptyDict
    /\ reg_order' = <<>>
    /\ reg_order_n' = <<>>
    /\ was_cleared' = (Registered > 0)
    /\ last_registration' = None
    /\ UNCHANGED <<prev, pc, locals>>

\* The test on one key with the bug of leaving out issubclass.
KeyMatches_exact(key, r_class) ==
    key = r_class \/ key = Any

\* The test of find_behaviors and find_notifications on one key.
KeyMatches(key, r_class) ==
    key = r_class \/ issubclass(r_class, key) \/ key = Any

\* The loop of find_behaviors / find_notifications over d.items().
RECURSIVE CollectMatching(_, _)
CollectMatching(items, r_class) ==
    IF items = <<>> THEN <<>>
    ELSE (IF KeyMatches(Head(items).key, r_class) THEN Head(items).val ELSE <<>>)
         \o CollectMatching(Tail(items), r_class)

\* The loop with the bug of behaviors = val + behaviors.
RECURSIVE CollectPrepending(_, _)
CollectPrepending(items, r_class) ==
    IF items = <<>> THEN <<>>
    ELSE CollectPrepending(Tail(items), r_class)
         \o (IF KeyMatches(Head(items).key, r_class) THEN Head(items).val ELSE <<>>)

find_behaviors_prepending(r_class) == CollectPrepending(behaviors, r_class)

find_behaviors(r_class) == CollectMatching(behaviors, r_class)

\* The loop with the bug of testing no key.
RECURSIVE CollectAll(_)
CollectAll(items) ==
    IF items = <<>> THEN <<>> ELSE Head(items).val \o CollectAll(Tail(items))

find_notifications_all(r_class) == CollectAll(notifications)

find_notifications(r_class) == CollectMatching(notifications, r_class)

\* request = request or self
EffectiveRequest(slf, request) == IF request = None THEN slf ELSE request

\* request.__class__ (an object is named by its class)
ClassOf(obj) == obj

\* raise_if_request_none(request) raises
RequestIsNone(request) == request = None

\* raise_if_handler_not_found(handler, request) raises
HandlerIsMissing(handler) == handler = None

\* The resolution with the bug of promoting a Sub request to the handler of Base.
LookupHandler_ancestor(r_class) ==
    IF DictGet(handlers, r_class) # None THEN handlers[r_class]
    ELSE IF DictGet(handlers, ClassName(r_class)) # None
         THEN handlers[ClassName(r_class)]
         ELSE IF r_class = "Sub" THEN DictGet(handlers, "Base") ELSE None

\* The resolution with the bug of trying the class name before the class.
LookupHandler_name_first(r_class) ==
    IF DictGet(handlers, ClassName(r_class)) # None THEN handlers[ClassName(r_class)]
    ELSE IF DictGet(handlers, r_class) # None
         THEN handlers[r_class]
         ELSE None

\* The handler __before_send resolves: by class, else by class name.
LookupHandler(r_class) ==
    IF DictGet(handlers, r_class) # None THEN handlers[r_class]
    ELSE IF DictGet(handlers, ClassName(r_class)) # None
         THEN handlers[ClassName(r_class)]
         ELSE None

\* __before_send with the bug of lacking the return for the call that has
\* notifications and no handler.
before_send_handler_required(slf, request_in) ==
    IF RequestIsNone(EffectiveRequest(slf, request_in))
    THEN [error |-> "RequestNoneError", behaviors |-> <<>>, notifications |-> <<>>]
    ELSE IF HandlerIsMissing(LookupHandler(ClassOf(EffectiveRequest(slf, request_in))))
    THEN [error |-> "HandlerNotFoundError", behaviors |-> <<>>, notifications |-> <<>>]
    ELSE [error |-> None,
          behaviors |-> Append(find_behaviors(ClassOf(EffectiveRequest(slf, request_in))),
                               LookupHandler(ClassOf(EffectiveRequest(slf, request_in)))),
          notifications |-> find_notifications(ClassOf(EffectiveRequest(slf, request_in)))]

\* Mediator.__before_send: the error it raises (None when it returns), and the
\* lists it returns.  The last link of behaviors is the lambda that calls the
\* handler; it is written as the handler it calls.
before_send(slf, request_in) ==
    LET request == EffectiveRequest(slf, request_in)
        r_class == ClassOf(request)
        found == find_notifications(r_class)
        handler == LookupHandler(r_class)
    IN  IF RequestIsNone(request)
        THEN [error |-> "RequestNoneError", behaviors |-> <<>>, notifications |-> <<>>]
        ELSE IF handler = None /\ found # <<>>
        THEN [error |-> None, behaviors |-> <<>>, notifications |-> found]
        ELSE IF HandlerIsMissing(handler)
        THEN [error |-> "HandlerNotFoundError", behaviors |-> <<>>, notifications |-> <<>>]
        ELSE [error |-> None,
              behaviors |-> Append(find_behaviors(r_class), handler),
              notifications |-> found]

\* The (self, request) pairs of the calls: mediator.send(r), mediator.send(None),
\* Mediator.send(r) (r bound to self, request left None) and Mediator.send(None).
\* self.__before_send is looked up on self as _Mediator__before_send, which only
\* a mediator has: the last two forms raise AttributeError there.
CallForms ==
    {<<MediatorClass, r>> : r \in RequestClasses \cup {None}}
        \cup {<<"Sub", None>>, <<None, None>>}

\* The registry's items after the handler link is appended to the list of the
\* first key that matches.
LinkStored(items, r_class, link) ==
    LET matching == {i \in 1..Len(items) : KeyMatches(items[i].key, r_class)}
    IN  IF matching = {} THEN items
        ELSE [items EXCEPT ![CHOOSE i \in matching : \A j \in matching : i <= j].val
                               = Append(@, link)]

\* The first lines with the bug of find_behaviors handing out the registry's own
\* list of the first matching key, so that the append of the handler link
\* writes the registry.
Enter_storing_link(m, slf, request) ==
    LET b == IF ClassOf(slf) = MediatorClass
             THEN before_send(slf, request)
             ELSE [error |-> "AttributeError", behaviors |-> <<>>, notifications |-> <<>>]
    IN  /\ mode' = m
        /\ self_arg' = slf
        /\ request_arg' = request
        /\ trace' = <<>>
        /\ val' = <<>>
        /\ result' = <<>>
        /\ raised_by' = None
        /\ beh_result' = <<None>>
        /\ chain' = b.behaviors
        /\ notifs' = b.notifications
        /\ IF b.error # None
           THEN /\ pc' = "done"
                /\ outcome' = b.error
                /\ idx' = 0
                /\ nidx' = 0
           ELSE /\ outcome' = None
                /\ IF b.behaviors # <<>>
                   THEN pc' = "start_func" /\ idx' = 1 /\ nidx' = 0
                   ELSE pc' = "fan_out" /\ idx' = 0 /\ nidx' = 1
        /\ last_registration' = None
        /\ behaviors' = IF b.behaviors # <<>>
                        THEN LinkStored(behaviors, ClassOf(EffectiveRequest(slf, request)),
                                        b.behaviors[Len(b.behaviors)])
                        ELSE behaviors
        /\ UNCHANGED <<handlers, notifications, first_handler, last_handler, reg_order,
                       was_cleared, reg_order_n, prev>>

\* The first lines of send / send_async, up to the test of behaviors.
Enter(m, slf, request) ==
    LET b == IF ClassOf(slf) = MediatorClass
             THEN before_send(slf, request)
             ELSE [error |-> "AttributeError", behaviors |-> <<>>, notifications |-> <<>>]
    IN  /\ mode' = m
        /\ self_arg' = slf
        /\ request_arg' = request
        /\ trace' = <<>>
        /\ val' = <<>>
        /\ result' = <<>>
        /\ raised_by' = None
        /\ beh_result' = <<None>>
        /\ chain' = b.behaviors
        /\ notifs' = b.notifications
        /\ IF b.error # None
           THEN /\ pc' = "done"
                /\ outcome' = b.error
                /\ idx' = 0
                /\ nidx' = 0
           ELSE /\ outcome' = None
                /\ IF b.behaviors # <<>>
                   THEN pc' = "start_func" /\ idx' = 1 /\ nidx' = 0
                   ELSE pc' = "fan_out" /\ idx' = 0 /\ nidx' = 1
        /\ last_registration' = None
        /\ UNCHANGED <<registry, first_handler, last_handler, reg_order, was_cleared,
                       reg_order_n, prev>>

\* Mediator.send(request), to the first call of start_func
send(slf, request) ==
    /\ Idle
    /\ Enter("send", slf, request)

\* Mediator.send_async(request), to the first call of start_func
send_async(slf, request) ==
    /\ Idle
    /\ Enter("send_async", slf, request)

\* Whether calling e in mode m executes e's body: a coroutine function's call
\* only builds a coroutine, which send never awaits and send_async's
\* __return_await__ awaits at once.
BodyRuns(m, e) == m = "send_async" \/ ~iscoroutinefunction(e)

\* The test with the bug of taking the call of next() for the next step in
\* send_async too.
NextRuns_as_send(m, e) ==
    Body(e) \in {"return_next", "await_next", "wrap", "drop"}

\* Whether e's body, having called next(), executes start_func(i + 1): in send
\* the continuation is the call itself; in send_async it builds a coroutine,
\* which runs when e awaits it or when a plain function returns it to
\* __return_await__.
NextRuns(m, e) ==
    IF m = "send"
    THEN Body(e) \in {"return_next", "wrap", "drop"}
    ELSE \/ Body(e) = "await_next"
         \/ Body(e) = "wrap" /\ iscoroutinefunction(e)
         \/ Body(e) = "return_next" /\ ~iscoroutinefunction(e)

\* What behavior e returns when next() is not executed as a step.
ReturnWithoutNext(m, e) ==
    CASE Body(e) \in {"short", "drop"} -> <<e>>
      [] Body(e) = "wrap" -> <<e, Coro>>
      [] Body(e) = "return_next" -> <<Coro>>
      [] OTHER -> <<None>>

\* What behavior e returns, start_func(i + 1) having returned v to it.
ReturnAfterNext(e, v) ==
    CASE Body(e) = "wrap" -> <<e>> \o v
      [] Body(e) = "drop" -> <<e>>
      [] OTHER -> v

\* start_func(i): the call of behaviors[i] that is not the last link
start_func_behavior ==
    /\ pc = "start_func"
    /\ idx < Len(chain)
    /\ LET e == chain[idx]
       IN  /\ trace' = Append(trace, e)
           /\ IF ~BodyRuns(mode, e)
              THEN /\ pc' = "return" /\ val' = <<Coro>> /\ idx' = idx
                   /\ UNCHANGED <<outcome, raised_by>>
              ELSE IF Body(e) = "raise"
              THEN /\ pc' = "done" /\ outcome' = "error" /\ raised_by' = e
                   /\ UNCHANGED <<val, idx>>
              ELSE IF NextRuns(mode, e)
              THEN /\ pc' = "start_func" /\ idx' = idx + 1
                   /\ UNCHANGED <<val, outcome, raised_by>>
              ELSE /\ pc' = "return" /\ val' = ReturnWithoutNext(mode, e) /\ idx' = idx
                   /\ UNCHANGED <<outcome, raised_by>>
    /\ UNCHANGED <<registry, history, mode, self_arg, request_arg, chain, notifs,
                   beh_result, nidx, result>>

\* The last link with the bug of a handler's error being swallowed: the call
\* goes on with None.
start_func_handler_swallowing ==
    /\ pc = "start_func"
    /\ idx = Len(chain)
    /\ trace' = Append(trace, chain[idx])
    /\ pc' = "return"
    /\ val' = IF ~BodyRuns(mode, chain[idx]) THEN <<Coro>>
              ELSE IF Body(chain[idx]) = "raise" THEN <<None>>
              ELSE <<chain[idx]>>
    /\ UNCHANGED <<registry, history, mode, self_arg, request_arg, chain, notifs,
                   idx, beh_result, nidx, outcome, result, raised_by>>

\* start_func(i) for the last link: lambda r, next: handler_func(r)
start_func_handler ==
    /\ pc = "start_func"
    /\ idx = Len(chain)
    /\ LET h == chain[idx]
       IN  /\ trace' = Append(trace, h)
           /\ IF ~BodyRuns(mode, h)
              THEN /\ pc' = "return" /\ val' = <<Coro>>
                   /\ UNCHANGED <<outcome, raised_by>>
              ELSE IF Body(h) = "raise"
              THEN /\ pc' = "done" /\ outcome' = "error" /\ raised_by' = h
                   /\ UNCHANGED val
              ELSE /\ pc' = "return" /\ val' = <<h>>
                   /\ UNCHANGED <<outcome, raised_by>>
    /\ UNCHANGED <<registry, history, mode, self_arg, request_arg, chain, notifs,
                   idx, beh_result, nidx, result>>

\* start_func(i + 1) returns val to the behavior that called it, which returns
start_func_return ==
    /\ pc = "return"
    /\ idx > 1
    /\ val' = ReturnAfterNext(chain[idx - 1], val)
    /\ idx' = idx - 1
    /\ UNCHANGED <<registry, history, pc, mode, self_arg, request_arg, chain, notifs,
                   beh_result, nidx, outcome, result, raised_by, trace>>

\* The assignment with the bug of dropping what start_func(0) returned.
pipeline_return_dropped ==
    /\ pc = "return"
    /\ idx = 1
    /\ beh_result' = <<None>>
    /\ pc' = "fan_out"
    /\ nidx' = 1
    /\ UNCHANGED <<registry, history, mode, self_arg, request_arg, chain, notifs,
                   idx, val, outcome, result, raised_by, trace>>

\* beh_result = start_func(0)
pipeline_return ==
    /\ pc = "return"
    /\ idx = 1
    /\ beh_result' = val
    /\ pc' = "fan_out"
    /\ nidx' = 1
    /\ UNCHANGED <<registry, history, mode, self_arg, request_arg, chain, notifs,
                   idx, val, outcome, result, raised_by, trace>>

\* The loop with the bug of catching what a notification raises and going on.
notify_isolating ==
    /\ pc = "fan_out"
    /\ nidx <= Len(notifs)
    /\ trace' = Append(trace, notifs[nidx])
    /\ nidx' = nidx + 1
    /\ UNCHANGED <<registry, history, pc, mode, self_arg, request_arg, chain, notifs,
                   idx, val, beh_result, outcome, result, raised_by>>

\* The loop with the bug of keeping what the notification returned as the result.
notify_overwrites_result ==
    /\ pc = "fan_out"
    /\ nidx <= Len(notifs)
    /\ LET n == notifs[nidx]
       IN  /\ trace' = Append(trace, n)
           /\ IF BodyRuns(mode, n) /\ Body(n) = "raise"
              THEN /\ pc' = "done" /\ outcome' = "error" /\ raised_by' = n
                   /\ UNCHANGED <<nidx, beh_result>>
              ELSE /\ nidx' = nidx + 1
                   /\ beh_result' = <<None>>
                   /\ UNCHANGED <<pc, outcome, raised_by>>
    /\ UNCHANGED <<registry, history, mode, self_arg, request_arg, chain, notifs,
                   idx, val, result>>

\* One turn of the loop over notifications: n_func(request)
notify ==
    /\ pc = "fan_out"
    /\ nidx <= Len(notifs)
    /\ LET n == notifs[nidx]
       IN  /\ trace' = Append(trace, n)
           /\ IF BodyRuns(mode, n) /\ Body(n) = "raise"
              THEN /\ pc' = "done" /\ outcome' = "error" /\ raised_by' = n
                   /\ UNCHANGED nidx
              ELSE /\ nidx' = nidx + 1
                   /\ UNCHANGED <<pc, outcome, raised_by>>
    /\ UNCHANGED <<registry, history, mode, self_arg, request_arg, chain, notifs,
                   idx, val, beh_result, result>>

\* return beh_result
send_return ==
    /\ pc = "fan_out"
    /\ nidx > Len(notifs)
    /\ pc' = "done"
    /\ outcome' = "returned"
    /\ result' = beh_result
    /\ UNCHANGED <<registry, history, mode, self_arg, request_arg, chain, notifs,
                   idx, val, beh_result, nidx, raised_by, trace>>

\* The caller goes on; the locals of the call are gone.
call_over ==
    /\ pc = "done"
    /\ pc' = "idle"
    /\ mode' = None
    /\ self_arg' = None
    /\ request_arg' = None
    /\ chain' = <<>>
    /\ notifs' = <<>>
    /\ idx' = 0
    /\ val' = <<>>
    /\ beh_result' = <<>>
    /\ nidx' = 0
    /\ outcome' = None
    /\ result' = <<>>
    /\ raised_by' = None
    /\ trace' = <<>>
    /\ UNCHANGED <<registry, history>>

Next ==
    \/ \E h \in Handlers \cup Rejected : register_handler(h)
    \/ \E n \in Notifications \cup Rejected : register_notification(n)
    \/ \E b \in Behaviors \cup Rejected : register_behavior(b)
    \/ clear
    \/ \E c \in CallForms : send(c[1], c[2])
    \/ \E c \in CallForms : send_async(c[1], c[2])
    \/ start_func_behavior
    \/ start_func_handler
    \/ start_func_return
    \/ pipeline_return
    \/ notify
    \/ send_return
    \/ call_over

Spec == Init /\ [][Next]_vars

(***************************************************************************)
(* Consecutive calls: registrations, then calls of send and send_async on  *)
(* a mediator with one request, each call kept in prev when it is over, so *)
(* that a call is compared with the one before it.                         *)
(***************************************************************************)
MaxPaired == 3

\* The caller goes on, keeping what the call did.
call_over_recorded ==
    /\ pc = "done"
    /\ prev' = [request |-> request_arg, mode |-> mode, outcome |-> outcome,
                result |-> result, raised_by |-> raised_by, trace |-> trace,
                chain |-> chain, notifs |-> notifs]
    /\ pc' = "idle"
    /\ mode' = None
    /\ self_arg' = None
    /\ request_arg' = None
    /\ chain' = <<>>
    /\ notifs' = <<>>
    /\ idx' = 0
    /\ val' = <<>>
    /\ beh_result' = <<>>
    /\ nidx' = 0
    /\ outcome' = None
    /\ result' = <<>>
    /\ raised_by' = None
    /\ trace' = <<>>
    /\ UNCHANGED <<registry, first_handler, last_handler, reg_order, was_cleared,
                   reg_order_n, last_registration>>

\* No call was made yet, and the registries may grow.
Registering == prev = NoPrev /\ Registered < MaxPaired

\* The request of the call before, or any request when there was none.
SameRequest(r) == prev = NoPrev \/ prev.request = r

NextPair ==
    \/ Registering /\ \E h \in Handlers : register_handler(h)
    \/ Registering /\ \E n \in Notifications : register_notification(n)
    \/ Registering /\ \E b \in Behaviors : register_behavior(b)
    \/ \E r \in RequestClasses : SameRequest(r) /\ send(MediatorClass, r)
    \/ \E r \in RequestClasses : SameRequest(r) /\ send_async(MediatorClass, r)
    \/ start_func_behavior
    \/ start_func_handler
    \/ start_func_return
    \/ pipeline_return
    \/ notify
    \/ send_return
    \/ call_over_recorded

SpecPair == Init /\ [][NextPair]_vars

(***************************************************************************)
(* What the claims speak of, stated apart from the operators above.        *)
(***************************************************************************)

\* The request the dispatch is about: the argument, or self when the argument is
\* absent (mediator.send(None) dispatches the mediator itself).
Dispatched == IF request_arg # None THEN request_arg ELSE self_arg

\* The matching rule of the specification: K == T, T a descendant of K, or K the wildcard.
Matches(K, T) == K = T \/ (T = "Sub" /\ K = "Base") \/ K = Any

\* The behaviors and handlers among the callables a call invoked, in order.
PipelineTrace == SelectSeq(trace, LAMBDA e : e \in Behaviors \cup Handlers)

\* The notifications among the callables a call invoked, in order.
FanOutTrace == SelectSeq(trace, LAMBDA e : e \in Notifications)

\* The registered behaviors that match T, in the order of their registration.
MatchedInRegistrationOrder(T) ==
    SelectSeq(reg_order, LAMBDA b : Matches(Annotation(b), T))

\* s with the entries of each key brought together, the keys in the order in
\* which each first occurs in s.
RECURSIVE GroupByKey(_)
GroupByKey(s) ==
    IF s = <<>> THEN <<>>
    ELSE SelectSeq(s, LAMBDA b : Annotation(b) = Annotation(Head(s)))
         \o GroupByKey(SelectSeq(s, LAMBDA b : Annotation(b) # Annotation(Head(s))))

\* The registered behaviors that match T, in matched order: by key, the keys in
\* the order of their first registration, and by registration within a key.
MatchedInKeyOrder(T) ==
    SelectSeq(GroupByKey(reg_order), LAMBDA b : Matches(Annotation(b), T))

\* s is a run of behaviors followed by exactly one handler.
EndsWithOneHandler(s) ==
    /\ Len(s) >= 1
    /\ s[Len(s)] \in Handlers
    /\ \A i \in 1..(Len(s) - 1) : s[i] \in Behaviors

\* Behavior b, called in mode m, invokes its continuation.
InvokesContinuation(m, b) ==
    /\ Body(b) \in {"return_next", "await_next", "wrap", "drop"}
    /\ m = "send" => ~iscoroutinefunction(b)

\* Behavior b, called in mode m, invokes its continuation and lets its result be
\* resolved: in send the call is the next step; in send_async b awaits the result,
\* or b is a plain function and returns it as it is.
ResolvesContinuation(m, b) ==
    /\ InvokesContinuation(m, b)
    /\ m = "send_async" =>
          \/ Body(b) = "await_next"
          \/ Body(b) = "wrap" /\ iscoroutinefunction(b)
          \/ Body(b) = "return_next" /\ ~iscoroutinefunction(b)

\* A call with a pipeline has ended.
PipelineDone == pc = "done" /\ chain # <<>>

C1_RegistrationOrderResolved ==
    (/\ PipelineDone
     /\ \A i \in 1..Len(MatchedInRegistrationOrder(Dispatched)) :
           ResolvesContinuation(mode, MatchedInRegistrationOrder(Dispatched)[i]))
    => /\ EndsWithOneHandler(PipelineTrace)
       /\ SubSeq(PipelineTrace, 1, Len(PipelineTrace) - 1)
             = MatchedInRegistrationOrder(Dispatched)

C2_FirstHandlerWins ==
    /\ handlers = first_handler
    /\ \A i \in 1..Len(trace) :
          (trace[i] \in Handlers /\ Annotation(trace[i]) = Dispatched)
             => trace[i] = first_handler[Dispatched]

\* C2 witness: hA2 was registered for Base and hA after it; a dispatch of a Base
\* request has invoked hA2.
C2_Witness ==
    /\ pc = "done"
    /\ Dispatched = "Base"
    /\ "Base" \in DOMAIN first_handler
    /\ first_handler["Base"] = "hA2"
    /\ last_handler["Base"] = "hA"
    /\ \E i \in 1..Len(trace) : trace[i] = "hA2"

\* Whether e is among the callables the call has invoked.
Invoked(e) == \E i \in 1..Len(trace) : trace[i] = e

\* Callable e, called in mode m, executes its body (a coroutine function's body
\* executes when its coroutine is awaited, which send never does).
Executes(m, e) == m = "send_async" \/ ~iscoroutinefunction(e)

\* What a behavior makes of the value v its continuation gave it.
Transform(b, v) ==
    CASE Body(b) = "wrap" -> <<b>> \o v
      [] Body(b) = "drop" -> <<b>>
      [] OTHER -> v

\* v as the behaviors at positions j, j - 1, ..., 1 of the chain hand it outwards.
RECURSIVE OuterValue(_, _)
OuterValue(j, v) ==
    IF j = 0 THEN v ELSE OuterValue(j - 1, Transform(chain[j], v))

\* The behavior at position i of the chain has run and returned without calling
\* its continuation.
ShortCircuitAt(i) ==
    /\ i \in 1..(Len(chain) - 1)
    /\ Invoked(chain[i])
    /\ Executes(mode, chain[i])
    /\ Body(chain[i]) = "short"

(***************************************************************************)
(* C3: when the behavior at position i returns without calling its         *)
(* continuation, nothing at a position after i is invoked in that call     *)
(* (no behavior, not the handler), the pipeline result is behavior i's     *)
(* return value as the behaviors before i hand it outwards, and with       *)
(* pass-through behaviors before i it is exactly behavior i's value.       *)
(***************************************************************************)
C3_ShortCircuit ==
    \A i \in 1..Len(chain) :
        ShortCircuitAt(i) =>
            /\ \A j \in (i + 1)..Len(chain) : ~Invoked(chain[j])
            /\ pc \in {"fan_out", "done"} =>
                  /\ beh_result = OuterValue(i - 1, <<chain[i]>>)
                  /\ (\A j \in 1..(i - 1) :
                         Body(chain[j]) \in {"return_next", "await_next"})
                        => beh_result = <<chain[i]>>
            /\ (pc = "done" /\ outcome = "returned") => result = beh_result

\* C3 witness: send returned <<bW, bS>>: bS at position 2 short-circuited under
\* the wrapping bW, a later behavior and the handler were never invoked.
C3_Witness ==
    /\ pc = "done"
    /\ outcome = "returned"
    /\ Len(chain) = 4
    /\ ShortCircuitAt(2)
    /\ Body(chain[1]) = "wrap"
    /\ result = <<chain[1], chain[2]>>
    /\ Len(trace) = 2

\* No handler is stored for class T, neither under the class nor under its name.
NoHandlerFor(T) ==
    /\ T \notin DOMAIN handlers
    /\ ClassName(T) \notin DOMAIN handlers

\* The entries of an insertion-ordered registry whose key matches T, in matched order.
RECURSIVE MatchedEntries(_, _)
MatchedEntries(items, T) ==
    IF items = <<>> THEN <<>>
    ELSE (IF Matches(Head(items).key, T) THEN Head(items).val ELSE <<>>)
         \o MatchedEntries(Tail(items), T)

\* A call of send or send_async on a mediator is running or has ended.
Dispatching == pc # "idle" /\ self_arg = MediatorClass

(***************************************************************************)
(* C4: a dispatch for which no handler and no notification matches fails   *)
(* with HandlerNotFoundError before anything is invoked, also when         *)
(* behaviors match the request.                                            *)
(***************************************************************************)
C4_HandlerNotFound ==
    (/\ Dispatching
     /\ NoHandlerFor(Dispatched)
     /\ MatchedEntries(notifications, Dispatched) = <<>>)
    => /\ pc = "done"
       /\ outcome = "HandlerNotFoundError"
       /\ trace = <<>>

\* C4 witness: the dispatch failed with HandlerNotFoundError although two
\* registered behaviors match the request.
C4_Witness ==
    /\ Dispatching
    /\ NoHandlerFor(Dispatched)
    /\ MatchedEntries(notifications, Dispatched) = <<>>
    /\ Len(MatchedEntries(behaviors, Dispatched)) >= 2
    /\ outcome = "HandlerNotFoundError"

\* Notification n, called in mode m, raises.
Raises(m, n) == Body(n) = "raise" /\ Executes(m, n)

(***************************************************************************)
(* C5: a dispatch for which no handler matches and at least one            *)
(* notification matches raises no dispatch error and runs no behavior,     *)
(* even if behaviors match; it invokes the matching notifications in       *)
(* matched order, each once, and, none of them raising, returns None.      *)
(***************************************************************************)
C5_NotificationOnly ==
    (/\ Dispatching
     /\ NoHandlerFor(Dispatched)
     /\ MatchedEntries(notifications, Dispatched) # <<>>)
    => /\ outcome \in {None, "returned", "error"}
       /\ PipelineTrace = <<>>
       /\ Len(trace) <= Len(MatchedEntries(notifications, Dispatched))
       /\ trace = SubSeq(MatchedEntries(notifications, Dispatched), 1, Len(trace))
       /\ pc = "done" =>
             \/ /\ outcome = "returned"
                /\ result = <<None>>
                /\ trace = MatchedEntries(notifications, Dispatched)
             \/ /\ outcome = "error"
                /\ Raises(mode, trace[Len(trace)])
       /\ (pc = "done" /\ \A i \in 1..Len(trace) : ~Raises(mode, trace[i]))
             => outcome = "returned"

\* C5 witness: with no handler, two notifications were invoked and None returned,
\* and a behavior that matches the request was left out.
C5_Witness ==
    /\ Dispatching
    /\ NoHandlerFor(Dispatched)
    /\ Len(MatchedEntries(behaviors, Dispatched)) >= 1
    /\ pc = "done"
    /\ outcome = "returned"
    /\ result = <<None>>
    /\ Len(trace) = 2

(***************************************************************************)
(* C6 as stated: a request of the subclass Sub is answered by the handler  *)
(* registered against its ancestor Base when none is registered for Sub.   *)
(***************************************************************************)
C6_AncestorHandler ==
    (/\ pc = "done"
     /\ self_arg = MediatorClass
     /\ Dispatched = "Sub"
     /\ NoHandlerFor("Sub")
     /\ "Base" \in DOMAIN handlers)
    => /\ chain # <<>>
       /\ chain[Len(chain)] = handlers["Base"]

(***************************************************************************)
(* C6 amended: a request of the subclass Sub is not answered by the        *)
(* handler registered against its ancestor Base: with no handler stored    *)
(* under Sub or Sub's name, no handler is invoked, and the dispatch fails  *)
(* with HandlerNotFoundError unless a notification matches.  No dispatch   *)
(* invokes more than one handler.                                          *)
(***************************************************************************)
C6_ExactHandlerOnly ==
    /\ Len(SelectSeq(trace, LAMBDA e : e \in Handlers)) <= 1
    /\ (Dispatching /\ Dispatched = "Sub" /\ NoHandlerFor("Sub"))
          => /\ chain = <<>>
             /\ \A h \in Handlers : ~Invoked(h)
             /\ MatchedEntries(notifications, "Sub") = <<>>
                   => (pc = "done" /\ outcome = "HandlerNotFoundError")

\* C6 witness: a handler is registered for Base, none for Sub, and the dispatch
\* of a Sub request failed with HandlerNotFoundError.
C6_Witness ==
    /\ pc = "done"
    /\ self_arg = MediatorClass
    /\ Dispatched = "Sub"
    /\ NoHandlerFor("Sub")
    /\ "Base" \in DOMAIN handlers
    /\ outcome = "HandlerNotFoundError"

\* The elements of a sequence.
Range(s) == {s[i] : i \in 1..Len(s)}

\* The entries an insertion-ordered registry holds.
RECURSIVE Entries(_)
Entries(items) ==
    IF items = <<>> THEN {} ELSE Range(Head(items).val) \cup Entries(Tail(items))

(***************************************************************************)
(* C7: the behaviors, and the notifications, collected for a request of    *)
(* type T are exactly the registered entries whose key K has K == T, or T  *)
(* a descendant of K, or K the wildcard, each once, whatever the order of  *)
(* the registrations.                                                      *)
(***************************************************************************)
C7_ExactlyTheMatching ==
    (Dispatching /\ outcome # "HandlerNotFoundError")
    => /\ Range(notifs)
             = {n \in Entries(notifications) : Matches(Annotation(n), Dispatched)}
       /\ Cardinality(Range(notifs)) = Len(notifs)
       /\ chain # <<>> =>
             /\ Range(SubSeq(chain, 1, Len(chain) - 1))
                   = {b \in Entries(behaviors) : Matches(Annotation(b), Dispatched)}
             /\ Cardinality(Range(chain)) = Len(chain)

\* C7 witness: for a Base request the wildcard behavior registered first and the
\* Base behavior registered after it were collected, the Sub behavior was not.
C7_Witness ==
    /\ Dispatching
    /\ Dispatched = "Base"
    /\ Len(behaviors) = 3
    /\ behaviors[1].key = Any
    /\ behaviors[2].key = "Sub"
    /\ behaviors[3].key = "Base"
    /\ Len(chain) = 3

(***************************************************************************)
(* C8: after clear() the three registries are empty whatever was           *)
(* registered before, and until something is registered again every        *)
(* dispatch of a request fails with HandlerNotFoundError and invokes       *)
(* nothing.                                                                *)
(***************************************************************************)
C8_ClearEmpties ==
    was_cleared =>
        /\ handlers = EmptyDict
        /\ behaviors = <<>>
        /\ notifications = <<>>
        /\ Dispatching =>
              /\ pc = "done"
              /\ outcome = "HandlerNotFoundError"
              /\ trace = <<>>

\* C8 witness: after a clear() of registries that held entries, the dispatch of
\* a Base request failed with HandlerNotFoundError.
C8_Witness ==
    /\ was_cleared
    /\ Dispatching
    /\ pc = "done"
    /\ Dispatched = "Base"
    /\ outcome = "HandlerNotFoundError"

(***************************************************************************)
(* C9: send or send_async called on a mediator with an absent request      *)
(* fails with RequestNoneError and invokes nothing, whatever the           *)
(* registries hold.                                                        *)
(***************************************************************************)
C9_RequestNone ==
    (pc # "idle" /\ self_arg = MediatorClass /\ request_arg = None)
    => /\ pc = "done"
       /\ outcome = "RequestNoneError"
       /\ trace = <<>>

(***************************************************************************)
(* C10: fan-out is sequential and fail-fast: the notifications are invoked *)
(* in matched order, and when the k-th raises, the call ends with that     *)
(* error, the k-1 before it were each invoked once and none after it is    *)
(* invoked.                                                                *)
(***************************************************************************)
C10_FailFast ==
    /\ Len(FanOutTrace) <= Len(notifs)
    /\ FanOutTrace = SubSeq(notifs, 1, Len(FanOutTrace))
    /\ \A k \in 1..Len(FanOutTrace) :
          Raises(mode, FanOutTrace[k]) =>
              /\ k = Len(FanOutTrace)
              /\ pc = "done"
              /\ outcome = "error"
              /\ raised_by = notifs[k]

\* C10 witness: the second of three matched notifications raised; the first and
\* the second were invoked, the third was not.
C10_Witness ==
    /\ pc = "done"
    /\ outcome = "error"
    /\ Len(notifs) = 3
    /\ raised_by = notifs[2]
    /\ Len(FanOutTrace) = 2

(***************************************************************************)
(* C11: when the handler or a behavior raises (no behavior of the model    *)
(* catches), the call ends with that error, nothing of the pipeline that   *)
(* had not started is invoked, and no notification is invoked.             *)
(***************************************************************************)
C11_PipelineErrorPropagates ==
    \A k \in 1..Len(PipelineTrace) :
        (Body(PipelineTrace[k]) = "raise" /\ Executes(mode, PipelineTrace[k]))
        => /\ pc = "done"
           /\ outcome = "error"
           /\ raised_by = PipelineTrace[k]
           /\ k = Len(PipelineTrace)
           /\ PipelineTrace = SubSeq(chain, 1, k)
           /\ FanOutTrace = <<>>
           /\ result = <<>>

\* C11 witness: the handler raised under two behaviors; the call ended with its
\* error and the matched notification was not invoked.
C11_Witness ==
    /\ pc = "done"
    /\ outcome = "error"
    /\ Len(chain) = 3
    /\ raised_by = chain[3]
    /\ Len(notifs) = 1
    /\ trace = chain

\* The fan-out of a call with a pipeline: notifications are invoked only after
\* start_func(0) has returned, in matched order, and after every pipeline step.
FanOutAfterPipeline ==
    (Dispatching /\ chain # <<>>)
    => /\ FanOutTrace # <<>> => pc \in {"fan_out", "done"} /\ raised_by \notin Range(chain)
       /\ trace = PipelineTrace \o FanOutTrace
       /\ FanOutTrace = SubSeq(MatchedEntries(notifications, Dispatched), 1, Len(FanOutTrace))
       /\ (pc = "done" /\ outcome = "returned")
             => /\ FanOutTrace = MatchedEntries(notifications, Dispatched)
                /\ result = beh_result
       /\ (pc = "done" /\ raised_by \notin Range(chain)
             /\ \A i \in 1..Len(FanOutTrace) : ~Raises(mode, FanOutTrace[i]))
             => outcome = "returned"

\* From the return of start_func(0) on, the pipeline's result is not written.
ResultFixedBeforeFanOut ==
    pc \in {"fan_out", "done"} /\ pc' \in {"fan_out", "done"} => beh_result' = beh_result

(***************************************************************************)
(* C12: in a dispatch with a handler whose pipeline ends without error,    *)
(* the matched notifications are invoked in matched order, each once, only *)
(* after the outermost pipeline step has returned, and, none of them       *)
(* raising, the call returns the pipeline's result, which no notification  *)
(* changes.                                                                *)
(***************************************************************************)
C12_FanOutAfterPipeline ==
    /\ []FanOutAfterPipeline
    /\ [][ResultFixedBeforeFanOut]_vars

\* C12 witness: a pipeline of a behavior and a handler returned the handler's
\* value, and two notifications were invoked after it.
C12_Witness ==
    /\ pc = "done"
    /\ outcome = "returned"
    /\ Len(chain) = 2
    /\ result = <<chain[2]>>
    /\ Len(FanOutTrace) = 2
    /\ trace = chain \o notifs

\* The handler the specification resolves for a request of type T: the one
\* under key T, else the one under the name of T, else none.
ResolvedHandler(T) ==
    IF T \in DOMAIN handlers THEN handlers[T]
    ELSE IF ClassName(T) \in DOMAIN handlers THEN handlers[ClassName(T)]
    ELSE None

(***************************************************************************)
(* C17: the handler of a dispatch of a request of type T is the one stored *)
(* under key T, or, none being stored under T, the one stored under the    *)
(* name of T; the type key goes before the name key, and no handler stored *)
(* under an ancestor of T or any other key is ever invoked.                *)
(***************************************************************************)
C17_HandlerResolution ==
    Dispatching
    => /\ chain # <<>> <=> ResolvedHandler(Dispatched) # None
       /\ chain # <<>> => chain[Len(chain)] = ResolvedHandler(Dispatched)
       /\ \A h \in Handlers :
             Invoked(h) => /\ h = ResolvedHandler(Dispatched)
                           /\ Annotation(h) \in {Dispatched, ClassName(Dispatched)}

\* C17 witness: handlers are stored under Sub, under the name of Sub and under
\* Base; the dispatch of a Sub request invoked
\* the one stored under Sub.
C17_Witness ==
    /\ pc = "done"
    /\ Dispatching
    /\ Dispatched = "Sub"
    /\ {"Sub", ClassName("Sub"), "Base"} \subseteq DOMAIN handlers
    /\ Invoked(handlers["Sub"])
    /\ ~Invoked(handlers[ClassName("Sub")])

(***************************************************************************)
(* C19 as stated: in send_async, with behaviors, plain or coroutine        *)
(* functions, that each return their continuation's result, the call       *)
(* delivers the handler's resolved value, never an unresolved coroutine.   *)
(***************************************************************************)
C19_Resolved ==
    (/\ pc = "done"
     /\ mode = "send_async"
     /\ outcome = "returned"
     /\ chain # <<>>
     /\ \A i \in 1..(Len(chain) - 1) : Body(chain[i]) \in {"return_next", "await_next"})
    => /\ result = <<chain[Len(chain)]>>
       /\ \A i \in 1..Len(result) : result[i] # Coro

\* Behavior b awaits the coroutine its continuation gave it, or is a plain
\* function that returns it to __return_await__, which awaits it.
ContinuationAwaited(b) ==
    \/ Body(b) = "await_next"
    \/ Body(b) = "wrap" /\ iscoroutinefunction(b)
    \/ Body(b) = "return_next" /\ ~iscoroutinefunction(b)

(***************************************************************************)
(* C20: in send_async the call of a continuation only creates a coroutine: *)
(* step i+1 is invoked only when behavior i awaits that coroutine or, a    *)
(* plain function, returns it to the executor, and never before behavior i *)
(* was invoked; a continuation result that is neither awaited nor returned *)
(* never runs step i+1.                                                    *)
(***************************************************************************)
C20_DeferredContinuation ==
    (Dispatching /\ mode = "send_async")
    => /\ PipelineTrace = SubSeq(chain, 1, Len(PipelineTrace))
       /\ \A i \in 1..(Len(chain) - 1) :
             /\ Invoked(chain[i + 1]) => Invoked(chain[i]) /\ ContinuationAwaited(chain[i])
             /\ (pc = "done" /\ outcome = "returned"
                   /\ \A j \in 1..i : ContinuationAwaited(chain[j]))
                   => Invoked(chain[i + 1])

\* C20 witness: send_async called a behavior that calls its continuation and
\* drops what it gave; the handler after it was never invoked and the call
\* returned the behavior's own value.
C20_Witness ==
    /\ pc = "done"
    /\ Dispatching
    /\ mode = "send_async"
    /\ Len(chain) = 2
    /\ Body(chain[1]) = "drop"
    /\ trace = <<chain[1]>>
    /\ outcome = "returned"
    /\ result = <<chain[1]>>

\* No element occurs twice in s.
NoDuplicates(s) == \A i, j \in 1..Len(s) : s[i] = s[j] => i = j

\* No list of the registry holds an entry twice, and no call invokes a behavior
\* or a notification twice.
EntriesOnce ==
    /\ \A i \in 1..Len(behaviors) : NoDuplicates(behaviors[i].val)
    /\ \A i \in 1..Len(notifications) : NoDuplicates(notifications[i].val)
    /\ NoDuplicates(chain)
    /\ NoDuplicates(notifs)
    /\ NoDuplicates(trace)

\* The registration of an entry that is present leaves the registry as it was.
PresentIsNoOp ==
    last_registration' \in {"behavior:present", "notification:present"}
        => registry' = registry

(***************************************************************************)
(* C14: after any registrations no behavior list and no notification list  *)
(* holds an entry twice: registering an entry that is present changes      *)
(* nothing, and a dispatch invokes a behavior or a notification registered *)
(* several times at most once.                                             *)
(***************************************************************************)
C14_NoDuplicateEntries ==
    /\ []EntriesOnce
    /\ [][PresentIsNoOp]_vars

\* C14 witness: of the two behaviors registered, both under one key, one has
\* been registered again, and the list of the key holds each once.
C14_Witness ==
    /\ last_registration = "behavior:present"
    /\ Len(behaviors) = 1
    /\ Len(behaviors[1].val) = 2
    /\ NoDuplicates(behaviors[1].val)

(***************************************************************************)
(* C15: a register_handler, register_behavior or register_notification     *)
(* call that fails with a registration error leaves the three registry     *)
(* tables as they were before the call.                                    *)
(***************************************************************************)
C15_FailedRegistrationFrame ==
    [][last_registration' = "rejected" => registry' = registry]_vars

\* C15 witness: with a handler, a behavior and a notification registered, the
\* registration of an invalid callable has failed.
C15_Witness ==
    /\ last_registration = "rejected"
    /\ DOMAIN handlers # {}
    /\ behaviors # <<>>
    /\ notifications # <<>>

\* The registered notifications that match T, in matched order: by key, the
\* keys in the order of their first registration, and by registration within a key.
MatchedNotificationsInKeyOrder(T) ==
    SelectSeq(GroupByKey(reg_order_n), LAMBDA n : Matches(Annotation(n), T))

(***************************************************************************)
(* C18: the matched behavior list, and the matched notification list, is   *)
(* ordered by key first and by registration second: the entries of a key   *)
(* are together, in the order of their registration, and the keys are in   *)
(* the order in which each first received an entry since the last clear(); *)
(* a dispatch runs its behaviors and notifications in that order.          *)
(***************************************************************************)
C18_KeyThenRegistration ==
    /\ Idle
       => \A T \in RequestClasses :
             /\ MatchedEntries(behaviors, T) = MatchedInKeyOrder(T)
             /\ MatchedEntries(notifications, T) = MatchedNotificationsInKeyOrder(T)
    /\ Dispatching
       => /\ notifs = MatchedNotificationsInKeyOrder(Dispatched)
          /\ FanOutTrace = SubSeq(notifs, 1, Len(FanOutTrace))
          /\ chain # <<>>
                => SubSeq(chain, 1, Len(chain) - 1) = MatchedInKeyOrder(Dispatched)

\* C18 witness: three notifications of two keys match the request; the one
\* registered last shares the key registered first, and the dispatch invoked it
\* before the one registered second.
C18_Witness ==
    /\ pc = "done"
    /\ Dispatching
    /\ Len(reg_order_n) = 3
    /\ Annotation(reg_order_n[3]) = Annotation(reg_order_n[1])
    /\ Annotation(reg_order_n[2]) # Annotation(reg_order_n[1])
    /\ FanOutTrace = <<reg_order_n[1], reg_order_n[3], reg_order_n[2]>>

\* A call has ended that follows a call of the other entry point with the same
\* request and the same registries.
PairDone ==
    /\ pc = "done"
    /\ prev # NoPrev
    /\ prev.request = request_arg
    /\ prev.mode # mode

\* Every registered handler, behavior and notification is a plain function.
AllSynchronous ==
    /\ \A k \in DOMAIN handlers : ~iscoroutinefunction(handlers[k])
    /\ \A b \in Entries(behaviors) : ~iscoroutinefunction(b)
    /\ \A n \in Entries(notifications) : ~iscoroutinefunction(n)

\* The call ended as the call before it did, having invoked the same callables
\* in the same order.
SameAsPrev ==
    /\ outcome = prev.outcome
    /\ result = prev.result
    /\ raised_by = prev.raised_by
    /\ trace = prev.trace

(***************************************************************************)
(* C13 as stated: with registries of plain functions only, send and        *)
(* send_async of the same request end with the same value or the same      *)
(* error, having invoked the same behaviors, handler and notifications in  *)
(* the same order.                                                         *)
(***************************************************************************)
C13_SameAsSend ==
    (PairDone /\ AllSynchronous) => SameAsPrev

\* Every registered behavior returns what its continuation returned, as it is,
\* or does not call its continuation.
AllPassThrough ==
    \A b \in Entries(behaviors) : Body(b) \in {"return_next", "short", "raise"}

\* Where the two entry points agree (C13): with registries of plain functions
\* only, whose behaviors each return their continuation's result as it is or
\* do not call their continuation.
SameForPassThrough ==
    (PairDone /\ AllSynchronous /\ AllPassThrough) => SameAsPrev

\* A step of a call of send or send_async leaves the registries as they are.
DispatchKeepsRegistry ==
    (pc # "idle" \/ pc' # "idle") => registry' = registry

\* A call that follows a call with the same request has the chain and the
\* notifications of that call.
SameChainAsPrev ==
    (pc # "idle" /\ prev # NoPrev /\ prev.request = request_arg)
    => /\ chain = prev.chain
       /\ notifs = prev.notifs

(***************************************************************************)
(* C16: no step of send or send_async writes the registry, whether the     *)
(* call returns or fails; the handler link appended to the matched         *)
(* behaviors is not stored, so two consecutive dispatches of one request   *)
(* with no registration in between run chains of the same length and       *)
(* content.                                                                *)
(***************************************************************************)
C16_DispatchReadsOnly ==
    /\ [][DispatchKeepsRegistry]_vars
    /\ []SameChainAsPrev

\* C16 witness: the second of two consecutive dispatches of one request runs a
\* chain of a behavior and the handler link, as the first did, and the behavior
\* table holds the behavior alone.
C16_Witness ==
    /\ pc = "done"
    /\ prev # NoPrev
    /\ prev.request = request_arg
    /\ Len(chain) = 2
    /\ prev.chain = chain
    /\ behaviors = <<[key |-> Annotation(chain[1]), val |-> <<chain[1]>>]>>
====
